---- MODULE Spec2Model ----
(***************************************************************************)
(* Model of the command bridge of studio-rust-mcp-server                   *)
(* (src/src/rbx_studio_server.rs, src/src/main.rs, src/src/error.rs).      *)
(*                                                                         *)
(* Two bridge processes run on one machine: "owner" bound the plugin port  *)
(* and serves GET /request, POST /response and POST /proxy; "dud" found    *)
(* the port busy and runs dud_proxy_loop.  Each process has its own        *)
(* AppState (process_queue, output_map, watch channel).  Every block of    *)
(* code that runs under the AppState mutex without an .await inside is one *)
(* atomic action; every .await separates two actions.                      *)
(*                                                                         *)
(* Specifications:                                                         *)
(*   Spec          both sessions open; the host, the network and callers   *)
(*                 that give up are free to act                            *)
(*   OpenSpec      Spec's bridge with other local clients of POST /proxy   *)
(*   LockSpec      every lock().await as a step of its own                 *)
(*   HostSpec      a host that keeps polling (fairness)                    *)
(*   PollSpec      with the ends of the sessions; the poll timer is fair   *)
(*   ShutdownSpec  PollSpec with fair tasks and a network that gives up    *)
(***************************************************************************)
EXTENDS Naturals, Integers, Sequences, FiniteSets, TLC

\* ---------------------------------------------------------------- bounds
MaxId == 2          \* tool invocations (fresh uuids) over both processes
MaxPollers == 2     \* concurrent GET /request connections of the host
MaxProxy == 1       \* concurrent POST /proxy requests the owner is serving
MaxForeign == 2     \* pushes up to which other local clients call /proxy

\* ------------------------------------------------------- program constants
STATUS_OK == 200
STATUS_LOCKED == 423
STATUS_INTERNAL_SERVER_ERROR == 500

Procs == {"owner", "dud"}
Ids == 1..MaxId
AllIds == 0..MaxId                  \* 0: an id no process allocated (forged)
Payloads == {"X", "Y"}              \* response strings the host may post
Pollers == 1..MaxPollers
Handlers == 1..MaxProxy

\* A oneshot-style result channel is named by the serial number of the
\* envelope its creator enqueued; 0 names no channel.
NoChan == 0
NoEnv == [args |-> <<>>, id |-> 0, n |-> 0]
NoRes == [ok |-> FALSE, val |-> "none"]
NoReply == [status |-> 0, json |-> FALSE, response |-> "none", id |-> 0]

VARIABLES
    process_queue,  \* AppState.process_queue of each process
    output_map,     \* AppState.output_map of each process: id -> channel
    version,        \* version of each process's watch channel (sends so far)
    nextId,         \* the next Uuid::new_v4() value
    enqCount,       \* envelopes pushed so far (names envelopes and channels)
    tool,           \* generic_tool_run invocations, by id
    poll,           \* request_handler invocations on the owner
    proxy,          \* proxy_handler invocations on the owner
    dud,            \* dud_proxy_loop of the follower
    exit,           \* close_tx.send(()) has happened, per process
    stopped,        \* server_handle has finished, per process
    enqLog,         \* history: envelopes in push order, per process
    deqLog,         \* history: envelopes in pop order, per process
    hostGot,        \* history: envelopes GET /request has returned
    completed,      \* history: payloads response_handler delivered, per id
    relayed,        \* history: what dud_proxy_loop sent to each invocation
    mutex           \* the task holding the AppState mutex of each process

vars == <<process_queue, output_map, version, nextId, enqCount, tool, poll,
          proxy, dud, exit, stopped, enqLog, deqLog, hostGot,
          completed, relayed, mutex>>

\* -------------------------------------------------------------- helpers

\* A task is named by its kind and its number; Free names no task.
Free == <<"free", 0>>

\* (mutant) the guard outlives the block
UnlockNever(m, p) == m

\* The MutexGuard of a locked block is dropped where the block ends.
Unlock(m, p) == [m EXCEPT ![p] = Free]

\* (mutant) push_front in place of push_back
PushFront(q, e) == <<e>> \o q

\* VecDeque::push_back
PushBack(q, e) == Append(q, e)

\* VecDeque::pop_front on a non-empty queue: the element and the rest
PopFrontItem(q) == Head(q)

\* (mutant) front() in place of pop_front(): the head stays in the queue
PeekRest(q) == q

PopFrontRest(q) == Tail(q)

\* (mutant) the sender is never put into the map
MapSkip(m, i, c) == m

\* HashMap::insert / remove / contains
MapInsert(m, i, c) == [m EXCEPT ![i] = c]
MapRemove(m, i) == [m EXCEPT ![i] = NoChan]
MapHas(m, i) == m[i] # NoChan

\* The ToolArgumentValues of the i-th tool call.  The bridge never looks
\* inside the arguments, so each call's value is a token of its own.
CallArgs(i) == <<"args", i>>

\* ToolArguments::new: the envelope carries the arguments and Some(id)
NewEnvelope(a, i, n) == [args |-> a, id |-> i, n |-> n]

\* The receiving end of channel c still exists: its creator is between
\* creating the channel and returning (or being dropped).
RxOpen(c) ==
    \/ \E i \in Ids : tool[i].n = c /\ tool[i].pc \in {"send", "recv", "remove"}
    \/ \E h \in Handlers : proxy[h].n = c /\ proxy[h].pc = "recv"

\* A sender of channel c still exists: senders live in output_map only.
TxAlive(c) == \E p \in Procs : \E i \in AllIds : output_map[p][i] = c

\* (mutant) the value reaches every invocation that is waiting
SendToolAny(t, c, v) ==
    [i \in Ids |-> IF t[i].pc \in {"send", "recv", "remove"}
                   THEN [t[i] EXCEPT !.rx = Append(@, v)] ELSE t[i]]

\* UnboundedSender::send: the value is appended to the receiver's buffer
SendTool(t, c, v) ==
    [i \in Ids |-> IF t[i].n = c /\ t[i].pc \in {"send", "recv", "remove"}
                   THEN [t[i] EXCEPT !.rx = Append(@, v)] ELSE t[i]]
SendProxy(x, c, v) ==
    [h \in Handlers |-> IF x[h].n = c /\ x[h].pc = "recv"
                        THEN [x[h] EXCEPT !.rx = Append(@, v)] ELSE x[h]]

\* impl IntoResponse for Report: every handler error becomes this status
ReportStatus == STATUS_INTERNAL_SERVER_ERROR

\* The watch Sender lives in AppState for the life of the process, so
\* waiter.changed() never returns Err.
TriggerAlive(p) == TRUE

IdleTool == [proc |-> "none", pc |-> "new", args |-> <<>>, n |-> 0,
             rx |-> <<>>, result |-> [kind |-> "none", text |-> "none"]]
IdlePoll == [pc |-> "idle", status |-> 0]
IdleProxy == [pc |-> "free", id |-> 0, n |-> 0, rx |-> <<>>, caller |-> "none"]
IdleDud == [pc |-> "loop", seen |-> 0, entry |-> NoEnv, h |-> 0,
            res |-> NoReply]

Init ==
    /\ process_queue = [p \in Procs |-> <<>>]
    /\ output_map = [p \in Procs |-> [i \in AllIds |-> NoChan]]
    /\ version = [p \in Procs |-> 0]
    /\ nextId = 1
    /\ enqCount = 0
    /\ tool = [i \in Ids |-> IdleTool]
    /\ poll = [k \in Pollers |-> IdlePoll]
    /\ proxy = [h \in Handlers |-> IdleProxy]
    /\ dud = IdleDud
    /\ exit = [p \in Procs |-> FALSE]
    /\ stopped = [p \in Procs |-> FALSE]
    /\ enqLog = [p \in Procs |-> <<>>]
    /\ deqLog = [p \in Procs |-> <<>>]
    /\ hostGot = {}
    /\ completed = [i \in AllIds |-> <<>>]
    /\ relayed = [i \in Ids |-> NoRes]
    /\ mutex = [p \in Procs |-> Free]

\* ------------------------------------------------------ generic_tool_run

\* Lines 182-190: allocate the id, create the channel, and under the lock
\* push the envelope and insert the sender.  No tool call arrives once the
\* tool-protocol session of the process has ended.
generic_tool_run_push(p) ==
    /\ nextId <= MaxId
    /\ ~exit[p]
    /\ LET i == nextId
           a == CallArgs(i)
           n == enqCount + 1
           e == NewEnvelope(a, i, n)
       IN /\ process_queue' = [process_queue EXCEPT ![p] = PushBack(@, e)]
          /\ output_map' = [output_map EXCEPT ![p] = MapInsert(@, i, n)]
          /\ enqLog' = [enqLog EXCEPT ![p] = Append(@, e)]
          /\ tool' = [tool EXCEPT ![i] = [IdleTool EXCEPT !.proc = p,
                          !.pc = "send", !.args = a, !.n = n]]
          /\ nextId' = i + 1
          /\ enqCount' = n
    /\ UNCHANGED <<version, poll, proxy, dud, exit, stopped, deqLog,
                   hostGot, completed, relayed>>
    /\ mutex' = Unlock(mutex, p)

\* Lines 191-193: trigger.send(()) outside the lock.  The send cannot fail:
\* AppState.waiter is a live receiver.
generic_tool_run_trigger(i) ==
    /\ tool[i].pc = "send"
    /\ version' = [version EXCEPT ![tool[i].proc] = @ + 1]
    /\ tool' = [tool EXCEPT ![i].pc = "recv"]
    /\ UNCHANGED <<process_queue, output_map, nextId, enqCount, poll, proxy,
                   dud, exit, stopped, enqLog, deqLog, hostGot,
                   completed, relayed>>
    /\ UNCHANGED mutex

\* Lines 194-197: rx.recv().await.  A value resumes the invocation; a
\* channel whose senders are all gone makes it return the internal error
\* at once, before the removal of lines 198-201.
generic_tool_run_recv(i) ==
    /\ tool[i].pc = "recv"
    /\ IF tool[i].rx # <<>>
       THEN tool' = [tool EXCEPT ![i].pc = "remove"]
       ELSE /\ ~TxAlive(tool[i].n)
            /\ tool' = [tool EXCEPT ![i].pc = "done",
                   ![i].result = [kind |-> "protocol_error",
                                  text |-> "Couldn't receive response"]]
    /\ UNCHANGED <<process_queue, output_map, version, nextId, enqCount, poll,
                   proxy, dud, exit, stopped, enqLog, deqLog,
                   hostGot, completed, relayed>>
    /\ UNCHANGED mutex

\* (mutant) the two arms of the match exchanged
ToolResultSwapped(r) ==
    IF r.ok THEN [kind |-> "tool_error", text |-> r.val]
    ELSE [kind |-> "success", text |-> r.val]

\* Lines 203-206: Ok becomes a successful tool result, Err a tool-level error
ToolResult(r) ==
    IF r.ok THEN [kind |-> "success", text |-> r.val]
    ELSE [kind |-> "tool_error", text |-> r.val]

\* Lines 198-206: remove_entry under the lock, then translate the result
generic_tool_run_remove(i) ==
    /\ tool[i].pc = "remove"
    /\ output_map' = [output_map EXCEPT ![tool[i].proc] = MapRemove(@, i)]
    /\ tool' = [tool EXCEPT ![i].pc = "done",
                            ![i].result = ToolResult(Head(tool[i].rx))]
    /\ UNCHANGED <<process_queue, version, nextId, enqCount, poll, proxy, dud,
                   exit, stopped, enqLog, deqLog, hostGot, completed,
                   relayed>>
    /\ mutex' = Unlock(mutex, tool[i].proc)

\* The invocation's future is dropped while suspended in rx.recv() (the
\* caller gave up): the receiver is dropped with it and nothing else runs.
generic_tool_run_dropped(i) ==
    /\ tool[i].pc = "recv"
    /\ tool' = [tool EXCEPT ![i].pc = "dropped"]
    /\ UNCHANGED <<process_queue, output_map, version, nextId, enqCount, poll,
                   proxy, dud, exit, stopped, enqLog, deqLog,
                   hostGot, completed, relayed>>
    /\ UNCHANGED mutex

\* ------------------------------------------------------ request_handler

\* Json(task): the envelope as the host receives it
ToJson(e) == [args |-> e.args, id |-> e.id]

\* (mutant) the clone is taken once the lock is released and has seen
\* whatever was sent until then
WaiterSeenLatest == version["owner"]

\* Line 218: state.waiter.clone().  AppState.waiter itself never awaits a
\* change, so it and every clone of it have seen only the initial version.
WaiterSeen == 0

\* (mutant) the elapsed window answered as a handler error
TimeoutError == [pc |-> "idle", status |-> ReportStatus]

\* (mutant) the window never ends the request
TimeoutNever == [pc |-> "wait", status |-> 0]

\* Line 226: the answer when the long-poll window elapses
TimeoutResponse == [pc |-> "idle", status |-> STATUS_LOCKED]

\* Line 225: the answer carrying a dequeued envelope
TaskResponse(e) == [pc |-> "idle", status |-> STATUS_OK]

\* Lines 213-219, one turn of the loop under the lock: pop the head and
\* return it, or clone the waiter and go on to wait.
PollTurn(k) ==
    IF process_queue["owner"] # <<>>
    THEN LET task == PopFrontItem(process_queue["owner"])
         IN /\ process_queue' = [process_queue EXCEPT
                                    !["owner"] = PopFrontRest(@)]
            /\ poll' = [poll EXCEPT ![k] = TaskResponse(task)]
            /\ deqLog' = [deqLog EXCEPT !["owner"] = Append(@, task)]
            /\ hostGot' = hostGot \cup {ToJson(task)}
    ELSE /\ poll' = [poll EXCEPT ![k] = [pc |-> "wait", status |-> 0]]
         /\ UNCHANGED <<process_queue, deqLog, hostGot>>

\* The host opens GET /request (the owner accepts it until shutdown
\* starts) and the handler makes its first turn.
request_handler_start(k) ==
    /\ poll[k].pc = "idle"
    /\ ~exit["owner"]
    /\ PollTurn(k)
    /\ UNCHANGED <<output_map, version, nextId, enqCount, tool, proxy, dud,
                   exit, stopped, enqLog, completed, relayed>>
    /\ mutex' = Unlock(mutex, "owner")

\* Line 220 and the next turn: waiter.changed().await? resolves once the
\* channel's version differs from the one the clone has seen (Err only
\* without a sender), and the loop takes the lock again.  The version only
\* grows, so the wake-up and the turn are taken as one step.
request_handler_changed(k) ==
    /\ poll[k].pc = "wait"
    /\ IF TriggerAlive("owner")
       THEN /\ version["owner"] # WaiterSeen
            /\ PollTurn(k)
       ELSE /\ poll' = [poll EXCEPT ![k] = [pc |-> "idle",
                                            status |-> ReportStatus]]
            /\ UNCHANGED <<process_queue, deqLog, hostGot>>
    /\ UNCHANGED <<output_map, version, nextId, enqCount, tool, proxy, dud,
                   exit, stopped, enqLog, completed, relayed>>
    /\ mutex' = Unlock(mutex, "owner")

\* Lines 211, 224-226: LONG_POLL_DURATION elapses while the loop is
\* suspended (on the lock or on the waiter).
request_handler_timeout(k) ==
    /\ poll[k].pc = "wait"
    /\ poll' = [poll EXCEPT ![k] = TimeoutResponse]
    /\ UNCHANGED <<process_queue, output_map, version, nextId, enqCount, tool,
                   proxy, dud, exit, stopped, enqLog, deqLog,
                   hostGot, completed, relayed>>
    /\ UNCHANGED mutex

\* ----------------------------------------------------- response_handler

\* (mutant) output_map.get in place of remove: the entry stays
ResponseGet(m, i) == m

\* Lines 236-239: output_map.remove(&payload.id)
ResponseRemove(m, i) == MapRemove(m, i)

\* Lines 236-240 and error.rs 29-40: the status POST /response answers for
\* id i in the present state: Ok(()) when the entry is there and its
\* receiver took the value, the Report's status for "Unknown ID" and for a
\* failed send.
ResponseStatus(i) ==
    IF MapHas(output_map["owner"], i) /\ RxOpen(output_map["owner"][i])
    THEN STATUS_OK ELSE ReportStatus

\* Lines 230-241: POST /response {id: i, response: x}, all under the lock.
\* The id is any id handed out so far or a forged one.
response_handler(i, x) ==
    /\ ~exit["owner"]
    /\ i < nextId
    /\ LET found == MapHas(output_map["owner"], i)
           c == output_map["owner"][i]
           sent == ResponseStatus(i) = STATUS_OK
       IN /\ output_map' = [output_map EXCEPT !["owner"] =
                               IF found THEN ResponseRemove(@, i) ELSE @]
          /\ tool' = IF sent THEN SendTool(tool, c, [ok |-> TRUE, val |-> x])
                     ELSE tool
          /\ proxy' = IF sent THEN SendProxy(proxy, c, [ok |-> TRUE, val |-> x])
                      ELSE proxy
          /\ completed' = IF sent THEN [completed EXCEPT ![i] = Append(@, x)]
                          ELSE completed
    /\ UNCHANGED <<process_queue, version, nextId, enqCount, poll, dud, exit,
                   stopped, enqLog, deqLog, hostGot, relayed>>
    /\ mutex' = Unlock(mutex, "owner")

\* -------------------------------------------------------- proxy_handler

\* Lines 247-254: the owner receives the follower's POST /proxy (the
\* envelope dud_proxy_loop popped, id included), pushes it and inserts a
\* new sender under the lock.  The trigger is not used here.
proxy_handler_push(h) ==
    /\ proxy[h].pc = "free"
    /\ ~exit["owner"]
    /\ dud.pc = "post"
    /\ dud.h = 0
    /\ LET command == ToJson(dud.entry)
           n == enqCount + 1
           e == NewEnvelope(command.args, command.id, n)
       IN /\ process_queue' = [process_queue EXCEPT !["owner"] = PushBack(@, e)]
          /\ output_map' = [output_map EXCEPT
                               !["owner"] = MapInsert(@, command.id, n)]
          /\ enqLog' = [enqLog EXCEPT !["owner"] = Append(@, e)]
          /\ proxy' = [proxy EXCEPT ![h] = [pc |-> "recv", id |-> command.id,
                           n |-> n, rx |-> <<>>, caller |-> "dud"]]
          /\ enqCount' = n
    /\ dud' = [dud EXCEPT !.h = h]
    /\ UNCHANGED <<version, nextId, tool, poll, exit, stopped,
                   deqLog, hostGot, completed, relayed>>
    /\ mutex' = Unlock(mutex, "owner")

\* Lines 243-254 for a POST /proxy sent by any other local client: the
\* handler takes whatever id the body carries.  The client can name an id
\* that is in use (ids travel in the clear on the loopback interface) or
\* one no process allocated; a uuid allocated later never equals it.
proxy_handler_foreign(h, i) ==
    /\ proxy[h].pc = "free"
    /\ ~exit["owner"]
    /\ i < nextId
    /\ enqCount < MaxForeign
    /\ LET n == enqCount + 1
           e == NewEnvelope(CallArgs(0), i, n)
       IN /\ process_queue' = [process_queue EXCEPT !["owner"] = PushBack(@, e)]
          /\ output_map' = [output_map EXCEPT !["owner"] = MapInsert(@, i, n)]
          /\ enqLog' = [enqLog EXCEPT !["owner"] = Append(@, e)]
          /\ proxy' = [proxy EXCEPT ![h] = [pc |-> "recv", id |-> i,
                           n |-> n, rx |-> <<>>, caller |-> "other"]]
          /\ enqCount' = n
    /\ UNCHANGED <<version, nextId, tool, poll, dud, exit, stopped,
                   deqLog, hostGot, completed, relayed>>
    /\ mutex' = Unlock(mutex, "owner")

\* Line 261 and error.rs 29-40: the reply of /proxy
ProxyReply(h) ==
    IF proxy[h].rx # <<>> /\ Head(proxy[h].rx).ok
    THEN [status |-> STATUS_OK, json |-> TRUE,
          response |-> Head(proxy[h].rx).val, id |-> proxy[h].id]
    ELSE [status |-> ReportStatus, json |-> FALSE,
          response |-> "Something went wrong", id |-> 0]

\* Lines 255-261: rx.recv().await resumes with a value (or with None when
\* no sender is left); on Ok the entry is removed under the lock and the
\* reply is written.  A reply whose caller is gone is discarded.
proxy_handler_recv(h) ==
    /\ proxy[h].pc = "recv"
    /\ proxy[h].rx # <<>> \/ ~TxAlive(proxy[h].n)
    /\ output_map' = IF ProxyReply(h).status = STATUS_OK
                     THEN [output_map EXCEPT
                              !["owner"] = MapRemove(@, proxy[h].id)]
                     ELSE output_map
    /\ dud' = IF proxy[h].caller = "dud"
              THEN [dud EXCEPT !.pc = "reply", !.res = ProxyReply(h), !.h = 0]
              ELSE dud
    /\ proxy' = [proxy EXCEPT ![h] = IdleProxy]
    /\ UNCHANGED <<process_queue, version, nextId, enqCount, tool, poll, exit,
                   stopped, enqLog, deqLog, hostGot, completed,
                   relayed>>
    /\ mutex' = Unlock(mutex, "owner")

\* The connection of a /proxy request closed (its caller saw a transport
\* failure): the server drops the handler's future where it is suspended.
proxy_handler_dropped(h) ==
    /\ proxy[h].pc = "recv"
    /\ proxy[h].caller = "gone"
    /\ proxy' = [proxy EXCEPT ![h] = IdleProxy]
    /\ UNCHANGED <<process_queue, output_map, version, nextId, enqCount, tool,
                   poll, dud, exit, stopped, enqLog, deqLog, hostGot,
                   completed, relayed>>
    /\ UNCHANGED mutex

\* ------------------------------------------------------- dud_proxy_loop

\* Lines 268-270, 294-295: the head of the loop.  `exit` is looked at only
\* here; then the head of the queue is popped under the lock and posted to
\* the owner, or the loop goes to wait on its own clone of the waiter.
dud_proxy_loop_pop ==
    /\ dud.pc = "loop"
    /\ IF exit["dud"]
       THEN /\ dud' = [dud EXCEPT !.pc = "stopped"]
            /\ stopped' = [stopped EXCEPT !["dud"] = TRUE]
            /\ UNCHANGED <<process_queue, deqLog>>
       ELSE IF process_queue["dud"] # <<>>
       THEN LET entry == PopFrontItem(process_queue["dud"])
            IN /\ process_queue' = [process_queue EXCEPT
                                       !["dud"] = PopFrontRest(@)]
               /\ deqLog' = [deqLog EXCEPT !["dud"] = Append(@, entry)]
               /\ dud' = [dud EXCEPT !.pc = "post", !.entry = entry, !.h = 0]
               /\ UNCHANGED stopped
       ELSE /\ dud' = [dud EXCEPT !.pc = "wait"]
            /\ UNCHANGED <<process_queue, deqLog, stopped>>
    /\ UNCHANGED <<output_map, version, nextId, enqCount, tool, poll, proxy,
                   exit, enqLog, hostGot, completed, relayed>>
    /\ mutex' = Unlock(mutex, "dud")

\* Line 295: waiter.changed().await.unwrap() on the loop's own clone (line
\* 267), which remembers the version it saw last.
dud_proxy_loop_changed ==
    /\ dud.pc = "wait"
    /\ version["dud"] # dud.seen
    /\ dud' = [dud EXCEPT !.pc = "loop", !.seen = version["dud"]]
    /\ UNCHANGED <<process_queue, output_map, version, nextId, enqCount, tool,
                   poll, proxy, exit, stopped, enqLog, deqLog,
                   hostGot, completed, relayed>>
    /\ UNCHANGED mutex

\* (mutant) the failed envelope is put back at the head of the queue
dud_proxy_loop_failed_requeue ==
    /\ dud.pc = "post"
    /\ dud' = [dud EXCEPT !.pc = "loop", !.entry = NoEnv, !.h = 0]
    /\ process_queue' = [process_queue EXCEPT !["dud"] = <<dud.entry>> \o @]
    /\ proxy' = [h \in Handlers |-> IF h = dud.h
                                    THEN [proxy[h] EXCEPT !.caller = "gone"]
                                    ELSE proxy[h]]
    /\ UNCHANGED <<output_map, version, nextId, enqCount, tool,
                   poll, exit, stopped, enqLog, deqLog, hostGot,
                   completed, relayed>>
    /\ UNCHANGED mutex

\* Lines 291-293: the POST fails in transport (owner gone, connection
\* lost); it is logged and the loop goes on.  A handler the owner started
\* for the request loses its caller.
dud_proxy_loop_failed ==
    /\ dud.pc = "post"
    /\ dud' = [dud EXCEPT !.pc = "loop", !.entry = NoEnv, !.h = 0]
    /\ proxy' = [h \in Handlers |-> IF h = dud.h
                                    THEN [proxy[h] EXCEPT !.caller = "gone"]
                                    ELSE proxy[h]]
    /\ UNCHANGED <<process_queue, output_map, version, nextId, enqCount, tool,
                   poll, exit, stopped, enqLog, deqLog, hostGot,
                   completed, relayed>>
    /\ UNCHANGED mutex

\* Lines 285-289: res.json::<RunCommandResponse>() keeps the response of a
\* JSON body and fails on any other body.
DecodeReply(r) ==
    IF r.json THEN [ok |-> TRUE, val |-> r.response]
    ELSE [ok |-> FALSE, val |-> "error decoding response body"]

\* (mutant) output_map.get in place of remove: the entry stays
DudGet(m, i) == m

\* Line 282: output_map.remove(&entry.id.unwrap())
DudRemove(m, i) == MapRemove(m, i)

\* Lines 276-290: an HTTP reply came back (whatever its status).  The
\* sender is taken out of output_map under the lock (unwrap() panics when
\* it is not there), the body is decoded, and the result is sent to the
\* invocation (unwrap() panics when its receiver is gone).  Decoding reads
\* only the reply, so the three are taken as one step.
dud_proxy_loop_reply ==
    /\ dud.pc = "reply"
    /\ LET i == dud.entry.id
           tx == output_map["dud"][i]
       IN IF ~MapHas(output_map["dud"], i)
          THEN /\ dud' = [dud EXCEPT !.pc = "panicked"]
               /\ UNCHANGED <<output_map, tool, relayed>>
          ELSE /\ output_map' = [output_map EXCEPT !["dud"] = DudRemove(@, i)]
               /\ IF RxOpen(tx)
                  THEN /\ tool' = SendTool(tool, tx, DecodeReply(dud.res))
                       /\ relayed' = [relayed EXCEPT ![i] = DecodeReply(dud.res)]
                       /\ dud' = [dud EXCEPT !.pc = "loop", !.entry = NoEnv,
                                             !.res = NoReply]
                  ELSE /\ dud' = [dud EXCEPT !.pc = "panicked"]
                       /\ UNCHANGED <<tool, relayed>>
    /\ UNCHANGED <<process_queue, version, nextId, enqCount, poll, proxy, exit,
                   stopped, enqLog, deqLog, hostGot, completed>>
    /\ mutex' = Unlock(mutex, "dud")

\* ------------------------------------------------------------- main

\* main.rs 79-81: the tool-protocol session ended, close_tx.send(())
main_close(p) ==
    /\ ~exit[p]
    /\ exit' = [exit EXCEPT ![p] = TRUE]
    /\ UNCHANGED <<process_queue, output_map, version, nextId, enqCount, tool,
                   poll, proxy, dud, stopped, enqLog, deqLog,
                   hostGot, completed, relayed>>
    /\ UNCHANGED mutex

\* main.rs 57-64: after the signal the server accepts nothing new and
\* finishes once no request is in flight.
serve_shutdown ==
    /\ exit["owner"]
    /\ ~stopped["owner"]
    /\ \A k \in Pollers : poll[k].pc = "idle"
    /\ \A h \in Handlers : proxy[h].pc = "free"
    /\ stopped' = [stopped EXCEPT !["owner"] = TRUE]
    /\ UNCHANGED <<process_queue, output_map, version, nextId, enqCount, tool,
                   poll, proxy, dud, exit, enqLog, deqLog, hostGot,
                   completed, relayed>>
    /\ UNCHANGED mutex

\* ------------------------------------------- the locked blocks, step by step

\* In the actions above a locked block runs in one step, from lock().await
\* to the end of the block.  The actions below take the lock in a step of
\* its own, so that a task can be seen holding it, and split the three
\* actions above that run on from an .await into a locked block.

Tasks ==
    {<<"call", 0>>, <<"resp", 0>>, <<"dud", 0>>}
        \cup {<<"tool", i>> : i \in Ids}
        \cup {<<"poll", k>> : k \in Pollers}
        \cup {<<"proxy", h>> : h \in Handlers}

\* Task t of process p stands at state.lock().await, or holds the guard
\* inside the block that follows:
\*   call   a new tool call, line 186        tool   line 199
\*   poll   line 214 (first turn or after a wake-up)
\*   resp   a POST /response, line 235
\*   proxy  lines 251 and 257                dud    lines 269 and 279
AtBlock(p, t) ==
    \/ t = <<"call", 0>> /\ nextId <= MaxId /\ ~exit[p]
    \/ /\ t[1] = "tool"
       /\ tool[t[2]].proc = p
       /\ tool[t[2]].pc = "remove"
    \/ /\ t[1] = "poll"
       /\ p = "owner"
       /\ \/ poll[t[2]].pc = "woken"
          \/ poll[t[2]].pc = "idle" /\ ~exit["owner"]
    \/ t = <<"resp", 0>> /\ p = "owner" /\ ~exit["owner"]
    \/ /\ t[1] = "proxy"
       /\ p = "owner"
       /\ \/ proxy[t[2]].pc = "remove"
          \/ /\ proxy[t[2]].pc = "free"
             /\ ~exit["owner"]
             /\ dud.pc = "post"
             /\ dud.h = 0
    \/ /\ t = <<"dud", 0>>
       /\ p = "dud"
       /\ \/ dud.pc = "reply"
          \/ dud.pc = "loop" /\ ~exit["dud"]

\* state.lock().await returns the guard: the mutex is free and the task
\* is waiting for it.  (The ids of the model are handed out by one
\* counter, so one new tool call at a time is between its lock and its
\* push.)
lock_acquire(p, t) ==
    /\ mutex[p] = Free
    /\ AtBlock(p, t)
    /\ t = <<"call", 0>> => \A q \in Procs : mutex[q] # t
    /\ mutex' = [mutex EXCEPT ![p] = t]
    /\ UNCHANGED <<process_queue, output_map, version, nextId, enqCount, tool,
                   poll, proxy, dud, exit, stopped, enqLog, deqLog, hostGot,
                   completed, relayed>>

\* Line 220: waiter.changed().await? returns; the loop goes to line 214.
request_handler_woken(k) ==
    /\ poll[k].pc = "wait"
    /\ version["owner"] # WaiterSeen
    /\ poll' = [poll EXCEPT ![k].pc = "woken"]
    /\ UNCHANGED <<process_queue, output_map, version, nextId, enqCount, tool,
                   proxy, dud, exit, stopped, enqLog, deqLog, hostGot,
                   completed, relayed, mutex>>

\* Lines 214-219 after a wake-up: the turn under the lock
request_handler_turn(k) ==
    /\ poll[k].pc = "woken"
    /\ PollTurn(k)
    /\ UNCHANGED <<output_map, version, nextId, enqCount, tool, proxy, dud,
                   exit, stopped, enqLog, completed, relayed>>
    /\ mutex' = Unlock(mutex, "owner")

\* Lines 211, 226: the window ends while the loop waits for the lock
request_handler_timeout_locking(k) ==
    /\ poll[k].pc = "woken"
    /\ mutex["owner"] # <<"poll", k>>
    /\ poll' = [poll EXCEPT ![k] = TimeoutResponse]
    /\ UNCHANGED <<process_queue, output_map, version, nextId, enqCount, tool,
                   proxy, dud, exit, stopped, enqLog, deqLog, hostGot,
                   completed, relayed, mutex>>

\* Line 255: rx.recv().await returns Some(Ok(..)); line 257 is next
proxy_handler_got(h) ==
    /\ proxy[h].pc = "recv"
    /\ proxy[h].rx # <<>>
    /\ Head(proxy[h].rx).ok
    /\ proxy' = [proxy EXCEPT ![h].pc = "remove"]
    /\ UNCHANGED <<process_queue, output_map, version, nextId, enqCount, tool,
                   poll, dud, exit, stopped, enqLog, deqLog, hostGot,
                   completed, relayed, mutex>>

\* Lines 256-261: remove_entry under the lock, then the reply
proxy_handler_remove(h) ==
    /\ proxy[h].pc = "remove"
    /\ output_map' = [output_map EXCEPT !["owner"] = MapRemove(@, proxy[h].id)]
    /\ dud' = IF proxy[h].caller = "dud"
              THEN [dud EXCEPT !.pc = "reply", !.res = ProxyReply(h), !.h = 0]
              ELSE dud
    /\ proxy' = [proxy EXCEPT ![h] = IdleProxy]
    /\ UNCHANGED <<process_queue, version, nextId, enqCount, tool, poll, exit,
                   stopped, enqLog, deqLog, hostGot, completed,
                   relayed>>
    /\ mutex' = Unlock(mutex, "owner")

\* Lines 277-284: the sender is taken out of output_map under the lock
\* (unwrap() panics when it is not there); the body is read next.
dud_proxy_loop_take ==
    /\ dud.pc = "reply"
    /\ IF MapHas(output_map["dud"], dud.entry.id)
       THEN /\ output_map' = [output_map EXCEPT
                                 !["dud"] = DudRemove(@, dud.entry.id)]
            /\ dud' = [dud EXCEPT !.pc = "decode"]
       ELSE /\ dud' = [dud EXCEPT !.pc = "panicked"]
            /\ UNCHANGED output_map
    /\ UNCHANGED <<process_queue, version, nextId, enqCount, tool, poll, proxy,
                   exit, stopped, enqLog, deqLog, hostGot, completed,
                   relayed>>
    /\ mutex' = Unlock(mutex, "dud")

\* Lines 285-290: res.json().await returns and the result is sent on the
\* sender taken at line 282, the one of the tool call that pushed the
\* envelope (unwrap() panics when its receiver is gone).
dud_proxy_loop_decoded ==
    /\ dud.pc = "decode"
    /\ LET i == dud.entry.id
           tx == tool[i].n
       IN IF RxOpen(tx)
          THEN /\ tool' = SendTool(tool, tx, DecodeReply(dud.res))
               /\ relayed' = [relayed EXCEPT ![i] = DecodeReply(dud.res)]
               /\ dud' = [dud EXCEPT !.pc = "loop", !.entry = NoEnv,
                                     !.res = NoReply]
          ELSE /\ dud' = [dud EXCEPT !.pc = "panicked"]
               /\ UNCHANGED <<tool, relayed>>
    /\ UNCHANGED <<process_queue, output_map, version, nextId, enqCount, poll,
                   proxy, exit, stopped, enqLog, deqLog, hostGot, completed,
                   mutex>>

\* ------------------------------------------------------- specification

ToolStep ==
    \/ \E p \in Procs : generic_tool_run_push(p)
    \/ \E i \in Ids : generic_tool_run_trigger(i)
    \/ \E i \in Ids : generic_tool_run_recv(i)
    \/ \E i \in Ids : generic_tool_run_remove(i)

PollStep ==
    \/ \E k \in Pollers : request_handler_changed(k)
    \/ \E k \in Pollers : request_handler_timeout(k)

ProxyStep == \E h \in Handlers : proxy_handler_recv(h)

DudStep ==
    \/ dud_proxy_loop_pop
    \/ dud_proxy_loop_changed
    \/ dud_proxy_loop_reply

\* What the surroundings do: the host's HTTP calls, the network, callers
\* giving up, sessions ending.
EnvStep ==
    \/ \E k \in Pollers : request_handler_start(k)
    \/ \E i \in AllIds : \E x \in Payloads : response_handler(i, x)
    \/ \E h \in Handlers : proxy_handler_push(h)
    \/ \E h \in Handlers : proxy_handler_dropped(h)
    \/ \E i \in Ids : generic_tool_run_dropped(i)
    \/ dud_proxy_loop_failed

\* The bridge while the tool-protocol sessions of both processes are open
Next == ToolStep \/ PollStep \/ ProxyStep \/ DudStep \/ EnvStep

Spec == Init /\ [][Next]_vars

\* The bridge with the ends of the two sessions (main.rs 79-83) and a host
\* whose answers all read "X"; no tool call is dropped by its caller.
LiveNext ==
    \/ ToolStep
    \/ PollStep
    \/ ProxyStep
    \/ DudStep
    \/ \E k \in Pollers : request_handler_start(k)
    \/ \E i \in AllIds : response_handler(i, "X")
    \/ \E h \in Handlers : proxy_handler_push(h)
    \/ \E h \in Handlers : proxy_handler_dropped(h)
    \/ dud_proxy_loop_failed
    \/ \E p \in Procs : main_close(p)
    \/ serve_shutdown

\* The bridge while both sessions are open, with a host whose answers all
\* read "X"; no tool call is dropped by its caller.
HostNext ==
    \/ ToolStep
    \/ PollStep
    \/ ProxyStep
    \/ DudStep
    \/ \E k \in Pollers : request_handler_start(k)
    \/ \E i \in AllIds : response_handler(i, "X")
    \/ \E h \in Handlers : proxy_handler_push(h)
    \/ \E h \in Handlers : proxy_handler_dropped(h)
    \/ dud_proxy_loop_failed

\* The same with other local clients calling POST /proxy.
OpenNext ==
    \/ HostNext
    \/ \E h \in Handlers : \E i \in AllIds : proxy_handler_foreign(h, i)

OpenSpec == Init /\ [][OpenNext]_vars

\* The bridge with every lock().await as a step of its own: a locked
\* block runs only for the task that holds the mutex.  The host's answers
\* all read "X"; no caller gives up and no request fails in transport.
LockNext ==
    \/ \E p \in Procs : \E t \in Tasks : lock_acquire(p, t)
    \/ \E p \in Procs : mutex[p] = <<"call", 0>> /\ generic_tool_run_push(p)
    \/ \E i \in Ids : generic_tool_run_trigger(i)
    \/ \E i \in Ids : generic_tool_run_recv(i)
    \/ \E i \in Ids : /\ tool[i].pc = "remove"
                      /\ mutex[tool[i].proc] = <<"tool", i>>
                      /\ generic_tool_run_remove(i)
    \/ \E k \in Pollers : /\ mutex["owner"] = <<"poll", k>>
                          /\ request_handler_start(k)
    \/ \E k \in Pollers : request_handler_woken(k)
    \/ \E k \in Pollers : /\ mutex["owner"] = <<"poll", k>>
                          /\ request_handler_turn(k)
    \/ \E k \in Pollers : request_handler_timeout(k)
    \/ \E k \in Pollers : request_handler_timeout_locking(k)
    \/ \E i \in AllIds : /\ mutex["owner"] = <<"resp", 0>>
                         /\ response_handler(i, "X")
    \/ \E h \in Handlers : /\ mutex["owner"] = <<"proxy", h>>
                           /\ proxy_handler_push(h)
    \/ \E h \in Handlers : proxy_handler_got(h)
    \/ \E h \in Handlers : /\ mutex["owner"] = <<"proxy", h>>
                           /\ proxy_handler_remove(h)
    \/ mutex["dud"] = <<"dud", 0>> /\ dud_proxy_loop_pop
    \/ dud_proxy_loop_changed
    \/ mutex["dud"] = <<"dud", 0>> /\ dud_proxy_loop_take
    \/ dud_proxy_loop_decoded

LockSpec == Init /\ [][LockNext]_vars

\* The timer of tokio::time::timeout fires once LONG_POLL_DURATION is over.
TimerFairness ==
    \A k \in Pollers : WF_vars(request_handler_timeout(k))

\* The runtime keeps running every task that can run: each tool call, each
\* handler, the relay loop, the server's shutdown.
TaskFairness ==
    /\ \A i \in Ids : WF_vars(generic_tool_run_trigger(i)
                              \/ generic_tool_run_recv(i)
                              \/ generic_tool_run_remove(i))
    /\ \A k \in Pollers : WF_vars(request_handler_changed(k))
    /\ \A h \in Handlers : WF_vars(proxy_handler_recv(h))
    /\ WF_vars(DudStep)
    /\ WF_vars(serve_shutdown)

\* The network ends every request: an outbound POST /proxy that gets no
\* reply fails in the end, and the owner then drops its handler.
NetworkFairness ==
    /\ WF_vars(dud_proxy_loop_failed)
    /\ \A h \in Handlers : WF_vars(proxy_handler_dropped(h))

\* The host keeps polling: whenever it has no GET /request open on some
\* connection it opens one.
HostFairness == WF_vars(\E k \in Pollers : request_handler_start(k))

HostSpec == Init /\ [][HostNext]_vars /\ TimerFairness /\ HostFairness

PollSpec == Init /\ [][LiveNext]_vars /\ TimerFairness

ShutdownSpec ==
    Init /\ [][LiveNext]_vars /\ TimerFairness /\ TaskFairness /\ NetworkFairness

\* ------------------------------------------------------------ claims

Ok(x) == [ok |-> TRUE, val |-> x]
Success(x) == [kind |-> "success", text |-> x]
Waiting(i) == tool[i].pc \in {"send", "recv"}

\* C1: completion is at most once per identifier.  A step that takes the
\* entry of id i out of the owner's output_map on behalf of POST /response
\* hands the payload to the channel of that entry and to no other; it is
\* the only delivery id i ever gets; and from then on the id has no entry,
\* so every later POST /response with it is answered "Unknown ID" and
\* delivers nothing.
C1_Step(i) ==
    LET c == output_map["owner"][i]
    IN /\ completed'[i] # completed[i] =>
            /\ completed[i] = <<>>
            /\ Len(completed'[i]) = 1
            /\ MapHas(output_map["owner"], i)
            /\ ~MapHas(output_map'["owner"], i)
            /\ \A j \in Ids : tool'[j].rx =
                   IF tool[j].n = c
                   THEN Append(tool[j].rx, Ok(completed'[i][1]))
                   ELSE tool[j].rx
            /\ \A h \in Handlers : proxy'[h].rx =
                   IF proxy[h].n = c
                   THEN Append(proxy[h].rx, Ok(completed'[i][1]))
                   ELSE proxy[h].rx
       /\ completed[i] # <<>> =>
            /\ completed'[i] = completed[i]
            /\ ~MapHas(output_map'["owner"], i)
C1_AtMostOnce == [][\A i \in AllIds : C1_Step(i)]_vars

\* C1 witness: an id was completed, its invocation resolved, and the host
\* can post the same id again.
C1_Witness ==
    \E i \in Ids : /\ completed[i] # <<>>
                   /\ tool[i].pc = "done"
                   /\ ENABLED response_handler(i, "Y")

\* C2: FIFO within one process.  What has been popped from a process's
\* queue, followed by what is still in it, is what was pushed, in push
\* order (local tool calls and /proxy alike).
C2_Fifo == \A p \in Procs : enqLog[p] = deqLog[p] \o process_queue[p]

\* C2 witness: the owner has handed out two envelopes, one pushed by a
\* local tool call and one by /proxy; the follower has popped one.
C2_Witness ==
    /\ Len(deqLog["owner"]) >= 2
    /\ \E a, b \in 1..Len(deqLog["owner"]) :
          /\ tool[deqLog["owner"][a].id].proc = "owner"
          /\ tool[deqLog["owner"][b].id].proc = "dud"
    /\ Len(deqLog["dud"]) >= 1

\* C3: round trip on the owner.  The envelope GET /request returns for a
\* local tool call is the one the call enqueued; what the call receives
\* and returns is exactly the payload POST /response delivered for its id;
\* and every waiting invocation or /proxy handler holds only what was
\* delivered for its own id.
C3_RoundTrip ==
    /\ \A i \in Ids : tool[i].proc = "owner" =>
          /\ \A b \in hostGot :
                b.id = i => b = [args |-> CallArgs(i), id |-> i]
          /\ Waiting(i) /\ completed[i] # <<>> =>
                tool[i].rx = <<Ok(completed[i][1])>>
          /\ Waiting(i) /\ completed[i] = <<>> => tool[i].rx = <<>>
          /\ tool[i].pc = "remove" =>
                completed[i] # <<>> /\ tool[i].rx = <<Ok(completed[i][1])>>
          /\ tool[i].pc = "done" =>
                completed[i] # <<>> /\ tool[i].result = Success(completed[i][1])
    /\ \A h \in Handlers : proxy[h].pc = "recv" =>
          proxy[h].rx = [k \in 1..Len(completed[proxy[h].id]) |->
                            Ok(completed[proxy[h].id][k])]

\* C3 witness: a local tool call on the owner was polled, answered and
\* has returned the answer.
C3_Witness ==
    \E i \in Ids : /\ tool[i].proc = "owner"
                   /\ tool[i].pc = "done"
                   /\ tool[i].result.kind = "success"
                   /\ [args |-> CallArgs(i), id |-> i] \in hostGot

\* C4: relay transparency.  Once the relay loop has passed on the owner's
\* answer for a follower's tool call, that answer is the payload the owner
\* was given for the same id, the follower's output_map has no entry for
\* the id, and the call holds, then returns, exactly that payload.
C4_RelayTransparent ==
    \A i \in Ids : tool[i].proc = "dud" =>
        /\ relayed[i].ok =>
              /\ completed[i] = <<relayed[i].val>>
              /\ ~MapHas(output_map["dud"], i)
              /\ Waiting(i) => tool[i].rx = <<relayed[i]>>
        /\ tool[i].pc \in {"remove", "done"} =>
              /\ relayed[i] # NoRes
              /\ tool[i].rx = <<relayed[i]>>
              /\ ~MapHas(output_map["dud"], i)
        /\ tool[i].pc = "done" => tool[i].result = ToolResult(relayed[i])

\* C4 witness: a follower's tool call came back with the owner's payload.
C4_Witness ==
    \E i \in Ids : /\ tool[i].proc = "dud"
                   /\ tool[i].pc = "done"
                   /\ tool[i].result.kind = "success"
                   /\ completed[i] = <<tool[i].result.text>>

\* C5: a POST /response whose id has no pending entry is answered with a
\* 4xx status.
C5_UnknownIdIs4xx ==
    \A i \in AllIds :
        (i < nextId /\ ~MapHas(output_map["owner"], i)) =>
            ResponseStatus(i) \in 400..499

\* C7: no double dispatch.  No envelope is popped twice or popped and
\* still queued; an envelope is awaiting the relay's answer only while it
\* is the last one the follower popped; and the host has been given
\* exactly the envelopes popped from the owner's queue.
Serials(q) == {q[k].n : k \in 1..Len(q)}
C7_NoDoubleDispatch ==
    /\ \A p \in Procs :
          LET all == deqLog[p] \o process_queue[p]
          IN \A a, b \in 1..Len(all) : a # b => all[a].n # all[b].n
    /\ dud.pc \in {"post", "reply"} =>
          /\ deqLog["dud"] # <<>>
          /\ dud.entry = deqLog["dud"][Len(deqLog["dud"])]
          /\ dud.entry.n \notin Serials(process_queue["dud"])
    /\ hostGot = {ToJson(deqLog["owner"][k]) : k \in 1..Len(deqLog["owner"])}
    /\ Cardinality(hostGot) = Len(deqLog["owner"])

\* C7 witness: two GET /request handlers that were in flight together
\* have each returned an envelope, and the relay is awaiting an answer.
C7_Witness ==
    /\ \A k \in Pollers : poll[k].status = STATUS_OK
    /\ Len(deqLog["owner"]) >= 2
    /\ dud.pc = "post"

\* C8: an identifier inserted into output_map is removed when its result
\* is delivered or when its tool call gives up: once the call has returned
\* or has been dropped, its id has no entry.
C8_RemovedOnGiveUp ==
    \A i \in Ids : tool[i].pc \in {"done", "dropped"} =>
        ~MapHas(output_map[tool[i].proc], i)

\* C9: no per-command failure stops the relay loop (or a handler) from
\* processing later commands: the relay loop is never ended by a panic.
C9_FailuresScoped == dud.pc # "panicked"

\* C6: every GET /request ends, and ends with 200 and an envelope popped
\* from the queue or with 423 and nothing popped, never with an error
\* status.
C6_Step(k) ==
    poll[k].pc # poll'[k].pc /\ poll'[k].pc = "idle" =>
        \/ /\ poll'[k].status = STATUS_OK
           /\ process_queue["owner"] # <<>>
           /\ deqLog'["owner"] = Append(deqLog["owner"],
                                        Head(process_queue["owner"]))
           /\ ToJson(Head(process_queue["owner"])) \in hostGot'
        \/ /\ poll'[k].status = STATUS_LOCKED
           /\ UNCHANGED <<process_queue, deqLog, hostGot>>
C6_PollEnds ==
    /\ [][\A k \in Pollers : C6_Step(k)]_vars
    /\ \A k \in Pollers : (poll[k].pc = "wait") ~> (poll[k].pc = "idle")

\* C6 witness: one GET /request has ended with 423 after waiting while the
\* queue was filled behind it, another has ended with 200.
C6_Witness ==
    /\ poll[1].status = STATUS_LOCKED
    /\ poll[2].status = STATUS_OK
    /\ version["owner"] > 0

\* C10: after close_tx.send(()) the background task of the process ends:
\* the HTTP server on the owner, the relay loop on the follower.
C10_ShutdownStops ==
    /\ exit["owner"] ~> stopped["owner"]
    /\ exit["dud"] ~> (dud.pc \in {"stopped", "panicked"})

\* C11: the notifier is fired on every append to the queue, by a local tool
\* call or by POST /proxy alike: on each process the sends made and the
\* sends about to be made (a call between its push and its trigger.send)
\* add up to the appends, and a GET /request waiting while the owner's
\* queue holds an envelope has been, or is about to be, woken.
Unnotified(p) ==
    Cardinality({i \in Ids : tool[i].proc = p /\ tool[i].pc = "send"})
C11_NotifyOnAppend ==
    /\ \A p \in Procs : version[p] + Unnotified(p) = Len(enqLog[p])
    /\ \A k \in Pollers :
          poll[k].pc = "wait" /\ process_queue["owner"] # <<>> =>
             version["owner"] # WaiterSeen \/ Unnotified("owner") > 0

\* The text the host posts when the command it ran failed: the response
\* of POST /response is one string, the success payload or the error text.
HostErrorText == "Y"

Notified(e) ==
    \E i \in Ids : tool[i].n = e.n /\ tool[i].pc \notin {"new", "send"}
HasNotified(q) == \E j \in 1..Len(q) : Notified(q[j])
C14_NoLostWakeup ==
    /\ \A k \in Pollers :
          poll[k].pc = "wait" /\ HasNotified(process_queue["owner"]) =>
             version["owner"] # WaiterSeen
    /\ dud.pc = "wait" /\ HasNotified(process_queue["dud"]) =>
          version["dud"] # dud.seen

\* C14 witness: a tool call pushed and notified behind a waiting GET
\* /request, and another behind the waiting relay loop.
C14_Witness ==
    /\ \E k \in Pollers : poll[k].pc = "wait"
    /\ HasNotified(process_queue["owner"])
    /\ dud.pc = "wait"
    /\ HasNotified(process_queue["dud"])

\* C16: a transport failure of the POST /proxy call delivers nothing to
\* the tool call waiting for that command, neither then nor later, puts
\* nothing back into the queue, and leaves the relay loop at the head of
\* its loop, whose next step pops and forwards the next queued command.
Abandoned(e) ==
    /\ relayed[e.id] = NoRes
    /\ dud.pc \in {"post", "reply"} => dud.entry # e
C16_Step ==
    /\ dud.pc = "post" /\ dud'.pc = "loop" =>
          /\ tool' = tool
          /\ relayed' = relayed
          /\ process_queue' = process_queue
          /\ output_map' = output_map
    /\ dud.pc = "loop" /\ dud' # dud /\ process_queue["dud"] # <<>> =>
          /\ dud'.pc = "post"
          /\ dud'.entry = Head(process_queue["dud"])
C16_FailureSkipsOne ==
    /\ [][C16_Step]_vars
    /\ [](\A j \in 1..Len(deqLog["dud"]) :
             Abandoned(deqLog["dud"][j]) =>
                 tool[deqLog["dud"][j].id].rx = <<>>)

\* C16 witness: the POST for the first command failed, its tool call is
\* still waiting with nothing received, and the next command is on its
\* way to the owner.
C16_Witness ==
    /\ Len(deqLog["dud"]) = 2
    /\ dud.pc = "post"
    /\ dud.entry = deqLog["dud"][2]
    /\ relayed[deqLog["dud"][1].id] = NoRes
    /\ tool[deqLog["dud"][1].id].pc = "recv"
    /\ process_queue["dud"] = <<>>

\* C17: a follower's commands reach the owner in the follower's enqueue
\* order: the envelopes the owner has pushed for the follower appear in
\* the order the follower pushed them, and the owner serves a /proxy call
\* of the follower only for the one command the relay loop is posting.
FromDud(e) == tool[e.id].proc = "dud"
C17_ForwardOrder ==
    LET F == SelectSeq(enqLog["owner"], FromDud)
        D == enqLog["dud"]
    IN /\ \A a, b \in 1..Len(F) : a < b =>
             \E x, y \in 1..Len(D) :
                 x < y /\ D[x].id = F[a].id /\ D[y].id = F[b].id
       /\ \A h \in Handlers : proxy[h].caller = "dud" =>
             /\ dud.pc = "post"
             /\ dud.h = h
             /\ proxy[h].id = dud.entry.id

\* C17 witness: two commands of the follower have entered the owner's
\* queue.
C17_Witness ==
    Len(SelectSeq(enqLog["owner"], FromDud)) = 2

\* C18: on the owner a result is delivered only for an envelope a poll
\* has already dequeued, and no envelope is in the queue once its pending
\* entry has been completed.
C18_Lifecycle ==
    \A i \in AllIds : completed[i] # <<>> =>
        /\ \E k \in 1..Len(deqLog["owner"]) : deqLog["owner"][k].id = i
        /\ \A j \in 1..Len(process_queue["owner"]) :
              process_queue["owner"][j].id # i

\* C19: on the follower, from the moment the relay loop has popped an
\* envelope until it has handled the reply, the envelope's id has an entry
\* in the follower's output_map, and it is the sender of the tool call
\* that pushed the envelope.
C19_EntryAtReply ==
    dud.pc \in {"post", "reply"} =>
        /\ MapHas(output_map["dud"], dud.entry.id)
        /\ output_map["dud"][dud.entry.id] = tool[dud.entry.id].n

\* C19 witness: the reply has come back for a command whose tool call
\* gave up meanwhile, while another tool call of the follower waits.
C19_Witness ==
    /\ dud.pc = "reply"
    /\ tool[dud.entry.id].pc = "dropped"
    /\ \E j \in Ids : tool[j].proc = "dud" /\ tool[j].pc = "recv"

\* C12: the queue of a process never holds two envelopes with the same
\* id, also when the owner serves POST /proxy calls whose ids the callers
\* chose.
C12_QueueIdsDistinct ==
    \A p \in Procs : \A a, b \in 1..Len(process_queue[p]) :
        a # b => process_queue[p][a].id # process_queue[p][b].id

\* C20: while the host keeps polling the owner, every envelope appended
\* to the owner's queue, by a local tool call or by POST /proxy, is in the
\* end returned by a GET /request.
Queued(i) ==
    \E j \in 1..Len(process_queue["owner"]) : process_queue["owner"][j].id = i
C20_EventuallyPolled ==
    \A i \in Ids : Queued(i) ~> ([args |-> CallArgs(i), id |-> i] \in hostGot)

\* C20 witness: an envelope pushed by /proxy behind waiting pollers, with
\* no notification on the owner, has been returned by a later poll.
C20_Witness ==
    /\ version["owner"] = 0
    /\ \E k \in Pollers : poll[k].status = STATUS_LOCKED
    /\ \E i \in Ids : /\ tool[i].proc = "dud"
                      /\ [args |-> CallArgs(i), id |-> i] \in hostGot

\* C15: no task holds the AppState mutex while it is suspended on the
\* notifier, on a result channel or on the outbound /proxy call: whoever
\* holds the mutex is inside a locked block, which runs to its end
\* without waiting for anything, so the mutex is always released again.
Suspended(t) ==
    \/ t[1] = "tool" /\ tool[t[2]].pc = "recv"
    \/ t[1] = "poll" /\ poll[t[2]].pc = "wait"
    \/ t[1] = "proxy" /\ proxy[t[2]].pc = "recv"
    \/ t[1] = "dud" /\ dud.pc \in {"wait", "post", "decode"}
C15_NoLockAcrossAwait ==
    /\ \A t \in Tasks : Suspended(t) => \A p \in Procs : mutex[p] # t
    /\ \A p \in Procs : mutex[p] # Free => AtBlock(p, mutex[p])

\* C15 witness: on the owner a woken poller holds the mutex while another
\* GET /request waits on the notifier and a tool call on its channel; on
\* the follower the relay loop holds it while a tool call waits.
C15_Witness ==
    /\ \E k, l \in Pollers : /\ mutex["owner"] = <<"poll", k>>
                             /\ poll[k].pc = "woken"
                             /\ poll[l].pc = "wait"
    /\ mutex["dud"] = <<"dud", 0>>
    /\ \E i, j \in Ids : /\ tool[i].proc = "owner" /\ tool[i].pc = "recv"
                         /\ tool[j].proc = "dud" /\ tool[j].pc = "recv"

====
